---- MODULE Spec2Model ----
(***************************************************************************)
(* A model of kenya-agri-farmwise:                                         *)
(*   - functions/predict_disease/main.py : the cold-start bootstrap and    *)
(*     the two Flask routes, /health and /predict  (specification Spec);   *)
(*   - ml/prepare_dataset.py : upload_to_gcs followed by                   *)
(*     create_dataset_csv                   (specification SpecData);      *)
(*   - ml/deploy_pretrained_model.py : the upload of the pre-trained model *)
(*     (an action of Spec);                                                *)
(*   - ml/train_model.py : train_model     (specification SpecTrain).      *)
(*                                                                         *)
(* Text is modelled as a sequence of tokens.  In a class label the         *)
(* underscore "_" is a token of its own (str.replace and str.split act on  *)
(* it) and every maximal run of other characters is one token.  A path or  *)
(* an object key is the sequence of its "/"-separated parts.               *)
(* A confidence is an integer number of 1/100000ths, a percentage an       *)
(* integer number of 1/100ths of a percent.                                *)
(***************************************************************************)
EXTENDS Integers, Sequences, FiniteSets, TLC

VARIABLES
    pc,            \* main.py: where the module-level bootstrap stands
    DISEASE_INFO,  \* main.py:25  the static disease table
    gcs_models,    \* the blobs of the bucket under the model prefix
    local_files,   \* the local file system under /tmp
    model,         \* main.py:45/50  the loaded model, or None
    class_names,   \* main.py:55/57  the label set
    boot_failure,  \* which bootstrap step failed, if any (history)
    request,       \* the last request served
    response,      \* the response to it
    effects,       \* what the handler did while serving it (history)
    dataset,       \* prepare_dataset.py: the local dataset tree (its files)
    walk_rev,      \* the order in which os.walk lists sibling directories
    bucket,        \* the object keys present in the bucket (dataset side)
    splits,        \* the (split name, directory) pairs upload_to_gcs located
    uploads,       \* the uploads upload_to_gcs made
    csv_lines,     \* the rows of dataset_import.csv
    dpc,           \* prepare_dataset.py __main__: the next step
    tpc,           \* train_model.py: where train_model stands
    args,          \* train_model.py:296-301  the parsed arguments
    trainable,     \* train_model.py:141/241  base_model.trainable
    learning_rate, \* the learning rate the model is compiled with
    fits,          \* the calls of model.fit made so far (history)
    model_dir      \* the files written below MODEL_DIR

vars == << pc, DISEASE_INFO, gcs_models, local_files, model, class_names,
           boot_failure, request, response, effects,
           dataset, walk_rev, bucket, splits, uploads, csv_lines, dpc,
           tpc, args, trainable, learning_rate, fits, model_dir >>

serve_vars == << pc, DISEASE_INFO, gcs_models, local_files, model, class_names,
                 boot_failure, request, response, effects >>

data_vars == << dataset, walk_rev, bucket, splits, uploads, csv_lines, dpc >>

train_vars == << tpc, args, trainable, learning_rate, fits, model_dir >>

None == "None"

(***************************************************************************)
(* Bounds of the model.                                                    *)
(***************************************************************************)
\* the longest label list class_names.json is drawn with
MaxLabels == 2
\* the largest number of files in a dataset tree
MaxFiles == 3
\* the largest --epochs train_model.py is started with
MaxEpochs == 12

(***************************************************************************)
(* Text helpers: Python's str.replace, `in` and str.split on token         *)
(* sequences.                                                              *)
(***************************************************************************)
U3 == << "_", "_", "_" >>

StartsWith(s, p) ==
    /\ Len(s) >= Len(p)
    /\ SubSeq(s, 1, Len(p)) = p

Drop(s, n) == SubSeq(s, n + 1, Len(s))

\* sub in s
Contains(s, sub) ==
    \E i \in 0 .. Len(s) : StartsWith(Drop(s, i), sub)

\* s.replace(old, new), old non-empty: leftmost, non-overlapping
RECURSIVE Replace(_, _, _)
Replace(s, old, new) ==
    IF s = << >> THEN << >>
    ELSE IF StartsWith(s, old)
         THEN new \o Replace(Drop(s, Len(old)), old, new)
         ELSE << Head(s) >> \o Replace(Tail(s), old, new)

\* s.split(sep), sep non-empty: the list of the pieces
RECURSIVE SplitAcc(_, _, _)
SplitAcc(s, sep, cur) ==
    IF s = << >> THEN << cur >>
    ELSE IF StartsWith(s, sep)
         THEN << cur >> \o SplitAcc(Drop(s, Len(sep)), sep, << >>)
         ELSE SplitAcc(Tail(s), sep, Append(cur, Head(s)))

Split(s, sep) == SplitAcc(s, sep, << >>)

\* d.get(k, default) on a record or a function
Get(d, k, default) == IF k \in DOMAIN d THEN d[k] ELSE default

(***************************************************************************)
(* main.py: configuration and the data the service reads.                  *)
(***************************************************************************)
MODEL_PATH == << "models", "plant-disease-detector" >>

local_model_path == << "tmp", "model" >>

\* labels, as token sequences
Tomato___Late_blight == << "Tomato", "_", "_", "_", "Late", "_", "blight" >>
Corn___Common_rust == << "Corn", "_", "_", "_", "Common", "_", "rust" >>
Potato___Early_blight == << "Potato", "_", "_", "_", "Early", "_", "blight" >>
Apple___Apple_scab == << "Apple", "_", "_", "_", "Apple", "_", "scab" >>
Grape___Black_rot == << "Grape", "_", "_", "_", "Black", "_", "rot" >>
Pepper___healthy___bell ==
    << "Pepper", "_", "_", "_", "healthy", "_", "_", "_", "bell" >>
Late_blight == << "Late", "_", "blight" >>

\* the hard-coded label list used when class_names.json cannot be read
FallbackClassNames ==
    << Tomato___Late_blight, Corn___Common_rust, Potato___Early_blight,
       Apple___Apple_scab, Grape___Black_rot >>

\* the labels class_names.json is drawn from (the empty string among
\* them), and the lists it may hold
LabelPool == { Tomato___Late_blight, Pepper___healthy___bell, Late_blight, << >> }

LabelLists == UNION { [1 .. n -> LabelPool] : n \in 0 .. MaxLabels }

\* disease_info.json is data of the deployment: the tables it is drawn from.
\* A record may lack any of its fields (the handler reads each with .get).
LateBlightRecord ==
    [ name |-> << "Late", " ", "Blight" >>,
      severity |-> "High",
      symptoms |-> << "Dark water-soaked lesions on leaves" >>,
      treatment |-> << "Apply copper-based fungicide" >>,
      prevention |-> << "Avoid overhead irrigation" >> ]

PartialRecord == [ severity |-> "Low", treatment |-> << "No treatment needed" >> ]

DiseaseTables ==
    { [ k \in {} |-> LateBlightRecord ],
      [ k \in { Late_blight } |-> LateBlightRecord ],
      [ k \in { Tomato___Late_blight, << "healthy" >> } |->
            IF k = Tomato___Late_blight THEN LateBlightRecord ELSE PartialRecord ] }

\* the generic record of main.py:134-155
GenericSymptoms ==
    << "Leaf discoloration or spots", "Wilting or drooping leaves",
       "Stunted growth", "Unusual leaf patterns" >>

GenericTreatment ==
    << "Remove affected plant parts", "Apply appropriate fungicide or pesticide",
       "Improve air circulation around plants", "Ensure proper watering schedule" >>

GenericPrevention ==
    << "Use disease-resistant varieties", "Practice crop rotation",
       "Maintain proper plant spacing", "Monitor plants regularly for early detection" >>

GenericInfo(disease_name) ==
    [ name |-> disease_name,
      severity |-> "Medium",
      symptoms |-> GenericSymptoms,
      treatment |-> GenericTreatment,
      prevention |-> GenericPrevention ]

\* the model prefix before anything is deployed: it holds the directory
\* placeholder object (a name ending in "/") a storage console creates; what
\* the deployment script adds is deploy_blobs, further down
PrefixPlaceholder == MODEL_PATH \o << "" >>

ModelBuckets == { { PrefixPlaceholder } }

\* /tmp as the process finds it: empty, or with an artifact already in
\* /tmp/model (makedirs(..., exist_ok=True) accepts an existing directory)
LocalStarts == { {}, { local_model_path \o << "saved_model.pb" >> } }

(***************************************************************************)
(* main.py: requests.                                                      *)
(***************************************************************************)
\* JSON values
JNull == [ t |-> "null" ]
JNumber == [ t |-> "number" ]
JObject(fields) == [ t |-> "object", o |-> fields ]
JString(valid_b64, payload) == [ t |-> "string", b64 |-> valid_b64, payload |-> payload ]

\* what the base64 text of an `image` field decodes to
PngImage == [ format |-> "PNG", mode |-> "RGBA" ]
JpegImage == [ format |-> "JPEG", mode |-> "RGB" ]
NotAnImage == [ format |-> "none", mode |-> "none" ]

ImageValues ==
    { JString(TRUE, PngImage), JString(TRUE, JpegImage),
      JString(TRUE, NotAnImage), JString(FALSE, NotAnImage), JNull }

JsonValues ==
    { JNull, JNumber, JObject([ k \in {} |-> JNull ]),
      JObject([ k \in { "crop" } |-> JNull ]) }
    \cup { JObject([ k \in { "image" } |-> v ]) : v \in ImageValues }

\* a request body: none at all (no JSON content type), a JSON content type
\* with text that does not parse (the empty text included), or JSON
Bodies ==
    { [ kind |-> "absent" ], [ kind |-> "unparseable" ] }
    \cup { [ kind |-> "json", value |-> v ] : v \in JsonValues }

\* what a loaded model returns for an image: predictions[0], or an error
OutputValues == { 12345, 100000, 250000 }

ModelOutputs == [ 1 .. 2 -> OutputValues ]

\* random.uniform(0.75, 0.95)
UniformLow == 75000
UniformHigh == 95000
UniformDraws == { UniformLow, 80005, UniformHigh }

(***************************************************************************)
(* main.py: the handlers.  An operator that may raise returns              *)
(* [exc |-> the exception, or None, value |-> its result].                 *)
(***************************************************************************)
Ok(v) == [ exc |-> None, value |-> v ]
Raise(e) == [ exc |-> e, value |-> None ]

\* flask.Request.get_json(): None or an exception (by the Flask version:
\* None before 2.1, 415 Unsupported Media Type since) when the request has
\* no JSON content type; 400 Bad Request when the text does not parse
get_json(body, raises_on_mimetype) ==
    CASE body.kind = "absent" ->
             IF raises_on_mimetype THEN Raise("415 Unsupported Media Type")
             ELSE Ok(JNull)
      [] body.kind = "unparseable" -> Raise("400 Bad Request")
      [] OTHER -> Ok(body.value)

\* bool(v)
Truthy(v) ==
    CASE v.t = "null" -> FALSE
      [] v.t = "number" -> TRUE
      [] v.t = "object" -> DOMAIN v.o # {}
      [] OTHER -> TRUE

\* main.py:108  not request_json or 'image' not in request_json
NoImage(request_json) ==
    IF ~ Truthy(request_json) THEN Ok(TRUE)
    ELSE IF request_json.t = "object" THEN Ok("image" \notin DOMAIN request_json.o)
    ELSE Raise("TypeError: argument of type 'int' is not iterable")

\* main.py:62-81
preprocess_image(image_data) ==
    IF image_data.t # "string"
    THEN Raise("TypeError: argument should be a bytes-like object or ASCII string")
    ELSE IF ~ image_data.b64 THEN Raise("binascii.Error: Incorrect padding")
    ELSE IF image_data.payload.format = "none"
    THEN Raise("UnidentifiedImageError: cannot identify image file")
    ELSE LET image == [ format |-> image_data.payload.format,
                        mode |-> image_data.payload.mode,
                        size |-> << 224, 224 >> ]
             rgb == IF image.mode # "RGB" THEN [ image EXCEPT !.mode = "RGB" ]
                    ELSE image
         IN  Ok([ batch |-> 1, size |-> rgb.size, mode |-> rgb.mode ])

\* np.argmax, as a 0-based index: the first position of the largest value
Argmax(v) ==
    (CHOOSE i \in 1 .. Len(v) :
        /\ \A j \in 1 .. Len(v) : v[j] <= v[i]
        /\ \A j \in 1 .. i - 1 : v[j] < v[i]) - 1

\* the label list read from its far end
label_at_mutant(names, class_idx) ==
    IF class_idx < Len(names) THEN names[Len(names) - class_idx] ELSE << "Unknown" >>

\* main.py:122
label_at(names, class_idx) ==
    IF class_idx < Len(names) THEN names[class_idx + 1] ELSE << "Unknown" >>

\* main.py:130
clean_name(disease_class) ==
    Replace(Replace(disease_class, U3, << " ", "-", " " >>), << "_" >>, << " " >>)

\* the lookup under the whole label, the split forgotten
disease_key_mutant(disease_class) == disease_class

\* main.py:133
disease_key(disease_class) ==
    IF Contains(disease_class, U3) THEN Split(disease_class, U3)[2]
    ELSE disease_class

\* main.py:134-155
lookup_info(table, key, disease_name) == Get(table, key, GenericInfo(disease_name))

\* the confidence scaled by 1000 instead of 100 (and not rounded)
RoundPercentMutant(c) == c

\* main.py:160  round(confidence * 100, 2): a number of 1/100000ths to the
\* nearest 1/100th of a percent, ties to even
RoundPercent(c) ==
    LET q == c \div 10
        r == c % 10
    IN  IF r > 5 \/ (r = 5 /\ q % 2 = 1) THEN q + 1 ELSE q

\* main.py:158-165
make_result(disease_info, disease_name, confidence) ==
    [ disease |-> Get(disease_info, "name", disease_name),
      confidence |-> RoundPercent(confidence),
      severity |-> Get(disease_info, "severity", "Medium"),
      symptoms |-> Get(disease_info, "symptoms", << >>),
      treatment |-> Get(disease_info, "treatment", << >>),
      prevention |-> Get(disease_info, "prevention", << >>) ]

JsonHeader == [ h \in { "Content-Type" } |-> "application/json" ]
HtmlHeader == [ h \in { "Content-Type" } |-> "text/html; charset=utf-8" ]

\* the preflight headers without Access-Control-Max-Age
PreflightHeadersMutant ==
    [ h \in { "Access-Control-Allow-Origin", "Access-Control-Allow-Methods",
              "Access-Control-Allow-Headers" } |->
        CASE h = "Access-Control-Allow-Origin" -> "*"
          [] h = "Access-Control-Allow-Methods" -> "POST"
          [] OTHER -> "Content-Type" ]

\* main.py:96-101
PreflightHeaders ==
    [ h \in { "Access-Control-Allow-Origin", "Access-Control-Allow-Methods",
              "Access-Control-Allow-Headers", "Access-Control-Max-Age" } |->
        CASE h = "Access-Control-Allow-Origin" -> "*"
          [] h = "Access-Control-Allow-Methods" -> "POST"
          [] h = "Access-Control-Allow-Headers" -> "Content-Type"
          [] OTHER -> "3600" ]

\* main.py:104
CorsHeaders == [ h \in { "Access-Control-Allow-Origin" } |-> "*" ]

\* what a handler did: read the body, decoded the image, called the model
\* (output: what the model returned), and the label it predicted
\* (predicted is FALSE if it predicted none)
NoEffects ==
    [ read_body |-> FALSE, decoded |-> FALSE, invoked |-> FALSE, output |-> << >>,
      predicted |-> FALSE, label |-> << >> ]

\* main.py:169-171
Caught(e, eff) ==
    [ response |-> [ status |-> 500, body |-> [ error |-> e ],
                     headers |-> CorsHeaders @@ JsonHeader ],
      effects |-> eff ]

\* a health check that reports a model whether or not one is loaded
health_check_mutant(m) ==
    [ status |-> 200,
      body |-> [ status |-> "healthy", model_loaded |-> TRUE ],
      headers |-> JsonHeader ]

\* main.py:83-89
health_check(m) ==
    [ status |-> 200,
      body |-> [ status |-> "healthy", model_loaded |-> m # None ],
      headers |-> JsonHeader ]

\* main.py:114-127: the label and the confidence, from the model or mocked.
\* env.out is what model.predict returns (predictions[0]), unless it raises
\* (env.predict_raises); env.choice and env.uniform are the draws of
\* random.choice (a 0-based position) and random.uniform.
predict_label(m, names, env) ==
    IF m # None
    THEN IF env.predict_raises THEN Raise("InvalidArgumentError")
         ELSE LET class_idx == Argmax(env.out)
              IN  Ok([ disease_class |-> label_at(names, class_idx),
                       confidence |-> env.out[class_idx + 1] ])
    ELSE IF names = << >> THEN Raise("IndexError: Cannot choose from an empty sequence")
         ELSE Ok([ disease_class |-> names[env.choice + 1],
                   confidence |-> env.uniform ])

\* main.py:104-171: POST /predict
predict_post(body, m, names, table, env) ==
    LET j == get_json(body, env.raises_on_mimetype)
        e1 == [ NoEffects EXCEPT !.read_body = TRUE ]
    IN
    IF j.exc # None THEN Caught(j.exc, e1)
    ELSE
    LET request_json == j.value
        missing == NoImage(request_json)
    IN
    IF missing.exc # None THEN Caught(missing.exc, e1)
    ELSE IF missing.value
    THEN [ response |-> [ status |-> 400, body |-> [ error |-> "No image provided" ],
                          headers |-> CorsHeaders @@ JsonHeader ],
           effects |-> e1 ]
    ELSE
    LET processed_image == preprocess_image(request_json.o["image"])
        e2 == [ e1 EXCEPT !.decoded = TRUE ]
    IN
    IF processed_image.exc # None THEN Caught(processed_image.exc, e2)
    ELSE
    LET p == predict_label(m, names, env)
        e3 == [ e2 EXCEPT !.invoked = (m # None),
                          !.output = IF m # None /\ p.exc = None THEN env.out ELSE << >> ]
    IN
    IF p.exc # None THEN Caught(p.exc, e3)
    ELSE
    LET disease_class == p.value.disease_class
        disease_name == clean_name(disease_class)
        disease_info == lookup_info(table, disease_key(disease_class), disease_name)
    IN  [ response |-> [ status |-> 200,
                         body |-> make_result(disease_info, disease_name,
                                              p.value.confidence),
                         headers |-> CorsHeaders @@ JsonHeader ],
          effects |-> [ e3 EXCEPT !.predicted = TRUE, !.label = disease_class ] ]

\* main.py:91-171
predict_disease(method, body, m, names, table, env) ==
    IF method = "OPTIONS"
    THEN [ response |-> [ status |-> 204, body |-> << >>,
                          headers |-> PreflightHeaders @@ HtmlHeader ],
           effects |-> NoEffects ]
    ELSE predict_post(body, m, names, table, env)

(***************************************************************************)
(* main.py: the module-level bootstrap, one action per step, and then the  *)
(* two routes.                                                             *)
(***************************************************************************)
NoRequest == [ route |-> "none", method |-> "none", body |-> [ kind |-> "absent" ] ]
NoResponse == [ status |-> 0, body |-> << >>, headers |-> << >> ]

\* train_model.py is not running
NoArgs == [ epochs |-> 0, learning_rate |-> 0 ]

TrainingOff ==
    /\ tpc = "off"
    /\ args = NoArgs
    /\ trainable = FALSE
    /\ learning_rate = 0
    /\ fits = << >>
    /\ model_dir = {}

Init ==
    /\ pc = "load_info"
    /\ DISEASE_INFO = << >>
    /\ gcs_models \in ModelBuckets
    /\ local_files \in LocalStarts
    /\ model = None
    /\ class_names = << >>
    /\ boot_failure = "none"
    /\ request = NoRequest
    /\ response = NoResponse
    /\ effects = NoEffects
    /\ dataset = {}
    /\ walk_rev = FALSE
    /\ bucket = {}
    /\ splits = << >>
    /\ uploads = {}
    /\ csv_lines = {}
    /\ dpc = "idle"
    /\ TrainingOff

\* main.py:23-25
LoadDiseaseInfo ==
    /\ pc = "load_info"
    /\ DISEASE_INFO' \in DiseaseTables
    /\ pc' = "download"
    /\ UNCHANGED << gcs_models, local_files, model, class_names, boot_failure,
                    request, response, effects >>
    /\ UNCHANGED data_vars
    /\ UNCHANGED train_vars

(***************************************************************************)
(* deploy_pretrained_model.py: the script that fills the model prefix.     *)
(***************************************************************************)
\* deploy_pretrained_model.py:25  the directory model.save writes
model_path == << "pretrained_plant_model" >>

\* deploy_pretrained_model.py:26  what model.save(..., save_format='tf')
\* leaves in that directory
SavedModelFiles ==
    { model_path \o << "saved_model.pb" >>,
      model_path \o << "variables", "variables.index" >> }

\* os.path.relpath(path, start), path below start (as relpath, further down)
relative_to(path, start) == SubSeq(path, Len(start) + 1, Len(path))

\* deploy_pretrained_model.py:37-38: the object a saved file is uploaded as
blob_path(local_path) == MODEL_PATH \o relative_to(local_path, model_path)

\* deploy_pretrained_model.py:35-60: the objects the script writes
deploy_blobs ==
    { blob_path(f) : f \in SavedModelFiles }
        \cup { MODEL_PATH \o << "class_names.json" >> }

\* deploy_pretrained_model.py, run before the service starts
DeployPretrainedModel ==
    /\ pc = "load_info"
    /\ ~ (deploy_blobs \subseteq gcs_models)
    /\ gcs_models' = gcs_models \cup deploy_blobs
    /\ UNCHANGED << pc, DISEASE_INFO, local_files, model, class_names, boot_failure,
                    request, response, effects >>
    /\ UNCHANGED data_vars
    /\ UNCHANGED train_vars

\* main.py:39  os.path.join('/tmp', blob.name)
local_file(name) == << "tmp" >> \o name

\* main.py:37-41: the files the download loop writes
downloaded_files(blobs) ==
    { local_file(name) : name \in { b \in blobs : b[Len(b)] # "" } }

\* main.py:28-41: the client, the listing and the downloads run outside any
\* try: an error of the storage service in any of them ends the process
DownloadModelFiles ==
    /\ pc = "download"
    /\ \E outcome \in { "ok", "list", "download" } :
        /\ outcome = "download" => downloaded_files(gcs_models) # {}
        /\ IF outcome = "ok"
           THEN /\ local_files' = local_files \cup downloaded_files(gcs_models)
                /\ pc' = "load_model"
                /\ UNCHANGED boot_failure
           ELSE /\ pc' = "crashed"
                /\ boot_failure' = outcome
                /\ UNCHANGED local_files
    /\ UNCHANGED << DISEASE_INFO, gcs_models, model, class_names,
                    request, response, effects >>
    /\ UNCHANGED data_vars
    /\ UNCHANGED train_vars

\* tf.keras.models.load_model(path): a SavedModel directory holds
\* saved_model.pb; a file that is there may still fail to load
load_model(files, path, readable) ==
    IF (path \o << "saved_model.pb" >>) \in files /\ readable
    THEN Ok("SavedModel")
    ELSE Raise("OSError: SavedModel file does not exist")

\* main.py:43-50
LoadModel ==
    /\ pc = "load_model"
    /\ \E readable \in BOOLEAN :
        LET m == load_model(local_files, local_model_path, readable)
        IN  IF m.exc = None
            THEN /\ model' = m.value
                 /\ UNCHANGED boot_failure
            ELSE /\ model' = None
                 /\ boot_failure' = "load"
    /\ pc' = "load_names"
    /\ UNCHANGED << DISEASE_INFO, gcs_models, local_files, class_names,
                    request, response, effects >>
    /\ UNCHANGED data_vars
    /\ UNCHANGED train_vars

\* main.py:52-60: the blob may be missing, the download or json.loads may
\* fail; the bare except covers all of it
LoadClassNames ==
    /\ pc = "load_names"
    /\ \/ /\ (MODEL_PATH \o << "class_names.json" >>) \in gcs_models
          /\ class_names' \in LabelLists
       \/ class_names' = FallbackClassNames
    /\ pc' = "serving"
    /\ UNCHANGED << DISEASE_INFO, gcs_models, local_files, model, boot_failure,
                    request, response, effects >>
    /\ UNCHANGED data_vars
    /\ UNCHANGED train_vars

\* GET /health
HealthCheck ==
    /\ pc = "serving"
    /\ request' = [ route |-> "/health", method |-> "GET", body |-> [ kind |-> "absent" ] ]
    /\ response' = health_check(model)
    /\ effects' = NoEffects
    /\ UNCHANGED << pc, DISEASE_INFO, gcs_models, local_files, model, class_names,
                    boot_failure >>
    /\ UNCHANGED data_vars
    /\ UNCHANGED train_vars

\* The environment of one request: the Flask version's answer to a missing
\* content type, the model's output and the two random draws.  A draw the
\* handler cannot read for this request is fixed rather than enumerated.
ReachesPrediction(method, body) ==
    /\ method = "POST"
    /\ body.kind = "json"
    /\ body.value.t = "object"
    /\ "image" \in DOMAIN body.value.o
    /\ preprocess_image(body.value.o["image"]).exc = None

Envs(method, body) ==
    LET infer == ReachesPrediction(method, body) /\ model # None
        mock == ReachesPrediction(method, body) /\ model = None
    IN  [ raises_on_mimetype :
              IF method = "POST" /\ body.kind = "absent" THEN BOOLEAN ELSE { FALSE },
          predict_raises : IF infer THEN BOOLEAN ELSE { FALSE },
          out : IF infer THEN ModelOutputs ELSE { [ i \in 1 .. 2 |-> 0 ] },
          choice : IF mock /\ Len(class_names) > 0
                   THEN 0 .. Len(class_names) - 1 ELSE { 0 },
          uniform : IF mock THEN UniformDraws ELSE { UniformLow } ]

\* POST or OPTIONS /predict
PredictDisease ==
    /\ pc = "serving"
    /\ \E method \in { "POST", "OPTIONS" }, body \in Bodies :
       \E env \in Envs(method, body) :
        LET r == predict_disease(method, body, model, class_names, DISEASE_INFO, env)
        IN  /\ request' = [ route |-> "/predict", method |-> method, body |-> body ]
            /\ response' = r.response
            /\ effects' = r.effects
    /\ UNCHANGED << pc, DISEASE_INFO, gcs_models, local_files, model, class_names,
                    boot_failure >>
    /\ UNCHANGED data_vars
    /\ UNCHANGED train_vars

Next ==
    \/ DeployPretrainedModel
    \/ LoadDiseaseInfo
    \/ DownloadModelFiles
    \/ LoadModel
    \/ LoadClassNames
    \/ HealthCheck
    \/ PredictDisease

Spec == Init /\ [][Next]_vars

(***************************************************************************)
(* The service's claims, checked under Spec.                               *)
(***************************************************************************)
IsPost == request.route = "/predict" /\ request.method = "POST"

HasImageField(body) ==
    /\ body.kind = "json"
    /\ body.value.t = "object"
    /\ "image" \in DOMAIN body.value.o

\* the `image` value is the base64 text of a PNG or JPEG that decodes
ValidImage(body) ==
    /\ HasImageField(body)
    /\ body.value.o["image"].t = "string"
    /\ body.value.o["image"].b64
    /\ body.value.o["image"].payload.format \in { "PNG", "JPEG" }

\* C1: every POST /predict whose body has no `image` field (an absent or
\* empty body included) is answered 400 with an `error` field, without
\* decoding an image or calling the model.
C1_MissingImageIs400 ==
    (IsPost /\ ~ HasImageField(request.body)) =>
        /\ response.status = 400
        /\ "error" \in DOMAIN response.body
        /\ ~ effects.decoded
        /\ ~ effects.invoked

\* C2: a malformed POST /predict (a body that is not JSON, an `image` that
\* is not the base64 text of a decodable image) is answered 400; 500 is
\* answered only to a well-formed input, with the exception's message in
\* `error`.
C2_MalformedIs400 ==
    IsPost =>
        LET malformed ==
                \/ request.body.kind = "unparseable"
                \/ HasImageField(request.body) /\ ~ ValidImage(request.body)
        IN  /\ malformed => response.status = 400
            /\ response.status = 500 =>
                   ~ malformed /\ "error" \in DOMAIN response.body

\* C3 as stated: every POST /predict with a valid base64 PNG/JPEG, with or
\* without a model, for every label set and every output vector the model
\* returns, is answered 200 with confidence in [0, 100] and a non-empty
\* disease.
C3_ValidImageIs200 ==
    (/\ IsPost
     /\ ValidImage(request.body)
     /\ ~ (response.status = 500 /\ response.body.error = "InvalidArgumentError")) =>
        /\ response.status = 200
        /\ response.body.confidence >= 0
        /\ response.body.confidence <= 10000
        /\ Len(response.body.disease) > 0

\* C3, amended: for a POST /predict with a valid base64 PNG/JPEG, when no
\* model is loaded and the label set is not empty, or a model is loaded and
\* returns an output vector whose entries lie in [0, 1], the response is 200
\* with confidence in [0, 100]; disease is a non-empty string when the
\* predicted label is one (the names of the disease table being non-empty).
C3_ValidImageIs200InRange ==
    (/\ IsPost
     /\ ValidImage(request.body)
     /\ \/ model = None /\ class_names # << >>
        \/ /\ effects.invoked
           /\ effects.output # << >>
           /\ \A i \in 1 .. Len(effects.output) :
                 effects.output[i] >= 0 /\ effects.output[i] <= 100000) =>
        /\ response.status = 200
        /\ response.body.confidence >= 0
        /\ response.body.confidence <= 10000
        /\ effects.label # << >> => Len(response.body.disease) > 0

\* a model is loaded and is fully confident of a class the label set lacks
C3_Witness ==
    /\ IsPost
    /\ ValidImage(request.body)
    /\ effects.invoked
    /\ response.status = 200
    /\ response.body.confidence = 10000
    /\ effects.label = << "Unknown" >>

GenericCare(body) ==
    /\ body.severity = "Medium"
    /\ body.symptoms = GenericSymptoms
    /\ body.treatment = GenericTreatment
    /\ body.prevention = GenericPrevention

\* C4 as stated: whenever the predicted label is not a key of the disease
\* table, the response carries the generic record's severity, symptoms,
\* treatment and prevention, and the cleaned-up label as disease.
C4_GenericUnlessLabelInTable ==
    (effects.predicted /\ effects.label \notin DOMAIN DISEASE_INFO) =>
        /\ GenericCare(response.body)
        /\ response.body.disease = clean_name(effects.label)

\* k is the text between the first and the second "___" of label (to its
\* end if there is no second), or label itself if it holds no "___"
IsLookupKey(label, k) ==
    IF ~ Contains(label, U3) THEN k = label
    ELSE \E i \in 1 .. Len(label) :
            /\ StartsWith(Drop(label, i - 1), U3)
            /\ \A j \in 1 .. i - 1 : ~ StartsWith(Drop(label, j - 1), U3)
            /\ StartsWith(Drop(label, i + 2), k)
            /\ ~ Contains(k, U3)
            /\ LET rest == Drop(label, i + 2 + Len(k))
               IN  rest = << >> \/ StartsWith(rest, U3)

\* the contiguous pieces of s, the empty one included
Pieces(s) ==
    { SubSeq(s, a, b) : a \in 1 .. Len(s) + 1, b \in 0 .. Len(s) }

\* C4, amended: the table is looked up under the key derived from the
\* predicted label (IsLookupKey).  When that key is not in the table the
\* response carries the generic record and the cleaned-up label; when it
\* is, the table's record is used, a field it lacks defaulting to the
\* cleaned-up label, Medium or the empty list.
C4_GenericUnlessKeyInTable ==
    effects.predicted =>
        \E k \in Pieces(effects.label) :
            /\ IsLookupKey(effects.label, k)
            /\ IF k \notin DOMAIN DISEASE_INFO
               THEN /\ GenericCare(response.body)
                    /\ response.body.disease = clean_name(effects.label)
               ELSE /\ response.body.disease =
                            Get(DISEASE_INFO[k], "name", clean_name(effects.label))
                    /\ response.body.severity = Get(DISEASE_INFO[k], "severity", "Medium")
                    /\ response.body.symptoms = Get(DISEASE_INFO[k], "symptoms", << >>)
                    /\ response.body.treatment = Get(DISEASE_INFO[k], "treatment", << >>)
                    /\ response.body.prevention = Get(DISEASE_INFO[k], "prevention", << >>)

\* a table record served for a label that is not itself a key of the table
C4_Witness ==
    /\ effects.predicted
    /\ effects.label = Tomato___Late_blight
    /\ effects.label \notin DOMAIN DISEASE_INFO
    /\ Late_blight \in DOMAIN DISEASE_INFO
    /\ response.body.severity = "High"

\* C5: every response other than the OPTIONS preflight (GET /health, POST
\* /predict with 200, 400 or 500) carries Access-Control-Allow-Origin: *.
C5_EveryResponseHasCors ==
    (request.route # "none" /\ request.method # "OPTIONS") =>
        /\ "Access-Control-Allow-Origin" \in DOMAIN response.headers
        /\ response.headers["Access-Control-Allow-Origin"] = "*"

\* C6: every OPTIONS /predict is answered 204 with an empty body and the
\* four CORS headers, whatever the body and whether or not a model is
\* loaded, without reading the body or calling the model.
C6_Preflight ==
    (request.route = "/predict" /\ request.method = "OPTIONS") =>
        /\ response.status = 204
        /\ Len(response.body) = 0
        /\ { "Access-Control-Allow-Origin", "Access-Control-Allow-Methods",
             "Access-Control-Allow-Headers", "Access-Control-Max-Age" }
               \subseteq DOMAIN response.headers
        /\ ~ effects.read_body
        /\ ~ effects.decoded
        /\ ~ effects.invoked

\* a preflight that carries an image while a model is loaded
C6_Witness ==
    /\ request.method = "OPTIONS"
    /\ ValidImage(request.body)
    /\ model # None
    /\ response.status = 204

\* C7: if obtaining the model fails at any step (listing, downloading,
\* loading), startup still completes, with the model unset, and the server
\* serves requests.
C7_BootstrapFailureDegrades ==
    boot_failure # "none" =>
        /\ pc # "crashed"
        /\ pc = "serving" => model = None

\* C8: GET /health answers 200 with model_loaded equal to whether the
\* bootstrap loaded a model, and no request handler writes the model, the
\* label set or the disease table.
C8_HealthStable ==
    /\ [](request.route = "/health" =>
            /\ response.status = 200
            /\ response.body.model_loaded = (boot_failure = "none"))
    /\ [][pc = "serving" =>
            /\ model' = model
            /\ class_names' = class_names
            /\ DISEASE_INFO' = DISEASE_INFO]_vars

\* a health check answered when the bootstrap could not load a model
C8_Witness ==
    /\ request.route = "/health"
    /\ boot_failure = "load"
    /\ response.body.model_loaded = FALSE

\* the cold start is past its download step
Downloaded == pc \in { "load_model", "load_names", "serving" }

\* C11: at cold start every object under models/plant-disease-detector
\* (directory placeholders aside) is downloaded into the local model
\* directory, the directory the model is then loaded from; so after the
\* deployment script has filled the prefix, a cold start ends with a model
\* loaded (model_loaded = true).
C11_DeployedModelIsLoaded ==
    /\ Downloaded =>
          \A b \in { x \in gcs_models : x[Len(x)] # "" } :
              (local_model_path \o relative_to(b, MODEL_PATH)) \in local_files
    /\ (pc = "serving" /\ deploy_blobs \subseteq gcs_models) => model # None

\* the labels of the current label set
LabelSet == { class_names[i] : i \in 1 .. Len(class_names) }

\* i is the position np.argmax picks in v: the first one of the largest value
IsArgmax(v, i) ==
    /\ i \in 1 .. Len(v)
    /\ \A j \in 1 .. Len(v) : v[j] <= v[i]
    /\ \A j \in 1 .. i - 1 : v[j] < v[i]

\* a POST /predict whose image decodes
DecodablePost == IsPost /\ ValidImage(request.body)

\* C12 as stated: with no model loaded, every POST /predict with a decodable
\* image is answered 200, the predicted label an element of the label set
\* and confidence in [75, 95], the model not invoked; with a model loaded,
\* the predicted label is the label-set entry at the arg-max output index.
C12_MockOrArgmaxLabel ==
    DecodablePost =>
        IF model = None
        THEN /\ response.status = 200
             /\ effects.predicted
             /\ effects.label \in LabelSet
             /\ response.body.confidence >= 7500
             /\ response.body.confidence <= 9500
             /\ ~ effects.invoked
        ELSE effects.predicted =>
                \E i \in 1 .. Len(effects.output) :
                    /\ IsArgmax(effects.output, i)
                    /\ i <= Len(class_names)
                    /\ effects.label = class_names[i]

\* C12, amended: with no model loaded, a POST /predict with a decodable
\* image never invokes the model; if the label set is not empty it is
\* answered 200 with a label of the label set and confidence in [75, 95],
\* and if the label set is empty it is answered 500.  With a model loaded
\* and returning an output vector, the model is invoked and the label is the
\* label-set entry at the arg-max output index when the label set has an
\* entry there, and "Unknown" when it has none.
C12_MockOrArgmaxLabelOrUnknown ==
    DecodablePost =>
        IF model = None
        THEN /\ ~ effects.invoked
             /\ IF class_names # << >>
                THEN /\ response.status = 200
                     /\ effects.predicted
                     /\ effects.label \in LabelSet
                     /\ response.body.confidence >= 7500
                     /\ response.body.confidence <= 9500
                ELSE /\ response.status = 500
                     /\ ~ effects.predicted
        ELSE /\ effects.invoked
             /\ effects.predicted =>
                  \E i \in 1 .. Len(effects.output) :
                     /\ IsArgmax(effects.output, i)
                     /\ effects.label =
                           IF i <= Len(class_names) THEN class_names[i]
                           ELSE << "Unknown" >>

\* a mock prediction at the top of the confidence range, drawn from a
\* downloaded label list
C12_Witness ==
    /\ DecodablePost
    /\ model = None
    /\ class_names # FallbackClassNames
    /\ response.status = 200
    /\ effects.label \in LabelSet
    /\ response.body.confidence = 9500
    /\ ~ effects.invoked

(***************************************************************************)
(* prepare_dataset.py.  A local path is the sequence of its parts below    *)
(* the dataset directory kagglehub returned (dataset_path, the empty       *)
(* path); an object key is the sequence of its "/"-separated parts.        *)
(***************************************************************************)
BUCKET_NAME == "kenya-agri-farmwise-ml"

GCS_PREFIX == << "datasets", "plantvillage" >>

dataset_path == << >>

\* the files a dataset tree is drawn from; the directories of a tree are
\* those its files lie in
FilePool ==
    { << "train", "Tomato", "a.jpg" >>,
      << "train", "Tomato", "b.JPG" >>,
      << "train", "Tomato", "notes.txt" >>,
      << "train", "Tomato", "leaf", "h.jpg" >>,
      << "train", "Tomato", "leaf\\h.jpg" >>,
      << "train", "c.png" >>,
      << "train", "val", "d.jpg" >>,
      << "val", "Tomato", "a.jpg" >>,
      << "x", "valid", "Corn", "e.jpeg" >>,
      << "y", "validation", "g.PNG" >>,
      << "Corn", "f.jpg" >> }

DatasetTrees == { t \in SUBSET FilePool : Cardinality(t) <= MaxFiles }

\* the extension a name ends with, as str.endswith sees it
Suffix(name) ==
    CASE name \in { "a.jpg", "h.jpg", "leaf\\h.jpg", "d.jpg", "f.jpg" } -> ".jpg"
      [] name = "b.JPG" -> ".JPG"
      [] name = "c.png" -> ".png"
      [] name = "e.jpeg" -> ".jpeg"
      [] name = "g.PNG" -> ".PNG"
      [] OTHER -> ""

\* name.split('\\'): the parts of a name around its backslashes
BackslashParts(name) ==
    IF name = "leaf\\h.jpg" THEN << "leaf", "h.jpg" >> ELSE << name >>

\* the order in which os.walk lists the subdirectories of a directory is
\* the file system's: by name, ascending or descending
DirNames ==
    << "Corn", "Tomato", "leaf", "train", "val", "valid", "validation", "x", "y" >>

Reverse(q) == [ i \in 1 .. Len(q) |-> q[Len(q) + 1 - i] ]

Dirs(tree) ==
    { dataset_path } \cup UNION { { SubSeq(f, 1, n) : n \in 0 .. Len(f) - 1 } : f \in tree }

IsUnder(f, d) == Len(f) > Len(d) /\ SubSeq(f, 1, Len(d)) = d

\* os.walk(top): the directories in the order they are yielded (top-down)
RECURSIVE Walk(_, _, _)
RECURSIVE WalkChildren(_, _, _, _)
Walk(tree, d, order) == << d >> \o WalkChildren(tree, d, order, 1)

WalkChildren(tree, d, order, i) ==
    IF i > Len(order) THEN << >>
    ELSE (IF Append(d, order[i]) \in Dirs(tree)
          THEN Walk(tree, Append(d, order[i]), order) ELSE << >>)
         \o WalkChildren(tree, d, order, i + 1)

\* the `dirs` os.walk yields with root
SubdirNames(tree, root) ==
    { d[Len(d)] : d \in { x \in Dirs(tree) : Len(x) = Len(root) + 1 /\ IsUnder(x, root) } }

NotFound == [ found |-> FALSE, dir |-> << >> ]
Found(d) == [ found |-> TRUE, dir |-> d ]

\* prepare_dataset.py:40-49
RECURSIVE locate_dirs(_, _, _, _, _)
locate_dirs(tree, walk, i, train_dir, val_dir) ==
    IF i > Len(walk) THEN [ train_dir |-> train_dir, val_dir |-> val_dir ]
    ELSE
    LET root == walk[i]
        dirs == SubdirNames(tree, root)
        t1 == IF "train" \in dirs /\ ~ train_dir.found
              THEN Found(Append(root, "train")) ELSE train_dir
        v1 == IF "val" \in dirs /\ ~ val_dir.found
              THEN Found(Append(root, "val")) ELSE val_dir
        v2 == IF "valid" \in dirs /\ ~ v1.found
              THEN Found(Append(root, "valid")) ELSE v1
        v3 == IF "validation" \in dirs /\ ~ v2.found
              THEN Found(Append(root, "validation")) ELSE v2
    IN  locate_dirs(tree, walk, i + 1, t1, v3)

\* prepare_dataset.py:35-60
find_splits(tree, order) ==
    LET located == locate_dirs(tree, Walk(tree, dataset_path, order), 1, NotFound, NotFound)
        s1 == IF located.train_dir.found
              THEN << [ name |-> "train", dir |-> located.train_dir.dir ] >> ELSE << >>
        s2 == IF located.val_dir.found
              THEN Append(s1, [ name |-> "val", dir |-> located.val_dir.dir ]) ELSE s1
    IN  IF s2 = << >> THEN << [ name |-> "all", dir |-> dataset_path ] >> ELSE s2

\* prepare_dataset.py:69
UploadExts == { ".jpg", ".jpeg", ".png", ".JPG", ".JPEG", ".PNG" }

\* os.path.relpath(local_path, split_dir), local_path below split_dir
relpath(local_path, split_dir) == SubSeq(local_path, Len(split_dir) + 1, Len(local_path))

\* path.replace('\\', '/'): every backslash becomes a separator
RECURSIVE SlashParts(_)
SlashParts(path) ==
    IF path = << >> THEN << >>
    ELSE BackslashParts(Head(path)) \o SlashParts(Tail(path))

\* the key without the split name
gcs_path_mutant(split_name, relative_path) == SlashParts(GCS_PREFIX \o relative_path)

\* prepare_dataset.py:73-74
gcs_path(split_name, relative_path) ==
    SlashParts(GCS_PREFIX \o << split_name >> \o relative_path)

\* prepare_dataset.py:67-80: the uploads of one split
split_uploads(tree, split) ==
    { [ split |-> split.name, file |-> f,
        key |-> gcs_path(split.name, relpath(f, split.dir)) ] :
      f \in { g \in tree : IsUnder(g, split.dir) /\ Suffix(g[Len(g)]) \in UploadExts } }

\* prepare_dataset.py:118
CsvExts == { ".jpg", ".jpeg", ".png" }

\* bucket.list_blobs(prefix=prefix), prefix ending in "/"
list_blobs(keys, prefix) == { k \in keys : IsUnder(k, prefix) }

\* prepare_dataset.py:111-125
csv_rows(keys) ==
    { [ uri |-> << "gs:", "", BUCKET_NAME >> \o k, class |-> k[Len(k) - 1] ] :
      k \in { b \in list_blobs(keys, Append(GCS_PREFIX, "train")) :
                 Suffix(b[Len(b)]) \in CsvExts /\ Len(b) >= 4 } }

\* The script starts on a downloaded tree and an empty bucket prefix.
InitData ==
    /\ pc = "off"
    /\ DISEASE_INFO = << >>
    /\ gcs_models = {}
    /\ local_files = {}
    /\ model = None
    /\ class_names = << >>
    /\ boot_failure = "none"
    /\ request = NoRequest
    /\ response = NoResponse
    /\ effects = NoEffects
    /\ dataset \in DatasetTrees
    /\ walk_rev \in BOOLEAN
    /\ bucket = {}
    /\ splits = << >>
    /\ uploads = {}
    /\ csv_lines = {}
    /\ dpc = "upload"
    /\ TrainingOff

\* prepare_dataset.py:27-87
UploadToGcs ==
    /\ dpc = "upload"
    /\ LET found == find_splits(dataset, IF walk_rev THEN Reverse(DirNames) ELSE DirNames)
           done == UNION { split_uploads(dataset, found[i]) : i \in 1 .. Len(found) }
       IN  /\ splits' = found
           /\ uploads' = done
           /\ bucket' = bucket \cup { u.key : u \in done }
    /\ dpc' = "verify"
    /\ UNCHANGED << dataset, walk_rev, csv_lines >>
    /\ UNCHANGED serve_vars
    /\ UNCHANGED train_vars

\* prepare_dataset.py:89-102: counts and prints, writes nothing
VerifyUpload ==
    /\ dpc = "verify"
    /\ dpc' = "csv"
    /\ UNCHANGED << dataset, walk_rev, bucket, splits, uploads, csv_lines >>
    /\ UNCHANGED serve_vars
    /\ UNCHANGED train_vars

\* prepare_dataset.py:104-138
CreateDatasetCsv ==
    /\ dpc = "csv"
    /\ csv_lines' = csv_rows(bucket)
    /\ bucket' = bucket \cup { Append(GCS_PREFIX, "dataset_import.csv") }
    /\ dpc' = "done"
    /\ UNCHANGED << dataset, walk_rev, splits, uploads >>
    /\ UNCHANGED serve_vars
    /\ UNCHANGED train_vars

NextData ==
    \/ UploadToGcs
    \/ VerifyUpload
    \/ CreateDatasetCsv

SpecData == InitData /\ [][NextData]_vars

(***************************************************************************)
(* The dataset script's claims, checked under SpecData.                    *)
(***************************************************************************)
Located == { splits[i] : i \in 1 .. Len(splits) }

\* the image files of the tree below directory d
ImagesUnder(d) ==
    { f \in dataset : IsUnder(f, d) /\ Suffix(f[Len(f)]) \in UploadExts }

\* C9: after create_dataset_csv has run on what upload_to_gcs uploaded, the
\* manifest has as many rows as training images were uploaded, and each
\* row is gs://<bucket>/<object key>,<class> with <class> the name of the
\* directory the image lies in.
C9_ManifestCountsUploads ==
    dpc = "done" =>
        LET train == { u \in uploads : u.split = "train" }
        IN  /\ Cardinality(csv_lines) = Cardinality(train)
            /\ \A row \in csv_lines :
                 \E u \in train :
                    /\ row.uri = << "gs:", "", BUCKET_NAME >> \o u.key
                    /\ row.class = u.file[Len(u.file) - 1]

SplitDirNames == { "train", "val", "valid", "validation" }

\* the located splits are named as the claim says: train for a directory
\* named train, val for one named val, valid or validation, and the whole
\* dataset as the one split "all" exactly when the tree has no such
\* directory
SplitsNamed ==
    LET names == { s.name : s \in Located }
        dirnames == { d[Len(d)] : d \in Dirs(dataset) \ { dataset_path } }
    IN  /\ Len(splits) = Cardinality(names)
        /\ \A s \in Located :
              CASE s.name = "train" ->
                       s.dir \in Dirs(dataset) /\ s.dir[Len(s.dir)] = "train"
                [] s.name = "val" ->
                       /\ s.dir \in Dirs(dataset)
                       /\ s.dir[Len(s.dir)] \in { "val", "valid", "validation" }
                [] OTHER -> s.name = "all" /\ s.dir = dataset_path /\ Len(splits) = 1
        /\ "train" \in names <=> "train" \in dirnames
        /\ "val" \in names <=> dirnames \cap { "val", "valid", "validation" } # {}
        /\ "all" \in names <=> dirnames \cap SplitDirNames = {}

\* C10 as stated: the keys written are exactly
\* datasets/plantvillage/<split>/<path relative to the split directory> for
\* the image files under the located split directories, one distinct key
\* per image file.
C10_OneKeyPerImage ==
    dpc # "upload" =>
        /\ { u.key : u \in uploads } =
             UNION { { GCS_PREFIX \o << s.name >> \o relpath(f, s.dir) :
                         f \in ImagesUnder(s.dir) } : s \in Located }
        /\ \A f \in UNION { ImagesUnder(s.dir) : s \in Located } :
              Cardinality({ u \in uploads : u.file = f }) = 1
        /\ \A u1, u2 \in uploads : u1.file # u2.file => u1.key # u2.key
        /\ SplitsNamed

\* rel with each backslash of each part taken as a separator
RECURSIVE WithSlashes(_)
WithSlashes(rel) ==
    IF Len(rel) = 0 THEN << >>
    ELSE WithSlashes(SubSeq(rel, 1, Len(rel) - 1)) \o BackslashParts(rel[Len(rel)])

\* C10, amended: upload_to_gcs makes exactly one upload for every pair of a
\* located split directory and an image file below it, under the key
\* datasets/plantvillage/<split>/<path relative to that directory, each
\* backslash replaced by "/">.  (A file below both located directories is
\* written under two keys; two files whose relative paths differ only in
\* backslash against "/" share one.)  The splits are named as stated.
C10_OneKeyPerSplitAndImage ==
    dpc # "upload" =>
        /\ uploads =
             UNION { { [ split |-> s.name, file |-> f,
                         key |-> GCS_PREFIX \o << s.name >>
                                   \o WithSlashes(SubSeq(f, Len(s.dir) + 1, Len(f))) ] :
                         f \in ImagesUnder(s.dir) } : s \in Located }
        /\ SplitsNamed

\* an image below both located directories, written under two keys
C10_Witness ==
    /\ dpc = "done"
    /\ \E u1, u2 \in uploads : u1.file = u2.file /\ u1.key # u2.key

(***************************************************************************)
(* train_model.py.  A learning rate is an integer number of millionths.    *)
(***************************************************************************)
\* train_model.py:30  LEARNING_RATE = 0.001, the default of --learning-rate
LEARNING_RATE == 1000

\* the values --learning-rate is drawn from
LearningRates == { LEARNING_RATE, 200 }

\* train_model.py:297-301  --epochs is any int the caller passes
Args == [ epochs : 0 .. MaxEpochs, learning_rate : LearningRates ]

\* train_model.py:207-209  EarlyStopping(patience=5)
Patience == 5

\* each phase given the half rounded up
phase_epochs_mutant(epochs) == (epochs + 1) \div 2

\* train_model.py:233, 255  args.epochs // 2
phase_epochs(epochs) == epochs \div 2

\* the epochs a completed model.fit(epochs=n) may have run: all n, or fewer
\* when EarlyStopping ended it, no earlier than after `patience` epochs
EpochsRun(n) == { n } \cup (Patience .. n)

\* one call of model.fit, as it is made
FitCall(n, base_trainable, rate, ran, completed) ==
    [ epochs |-> n, trainable |-> base_trainable, learning_rate |-> rate,
      ran |-> ran, completed |-> completed ]

\* The script starts with its arguments parsed.
InitTrain ==
    /\ pc = "off"
    /\ DISEASE_INFO = << >>
    /\ gcs_models = {}
    /\ local_files = {}
    /\ model = None
    /\ class_names = << >>
    /\ boot_failure = "none"
    /\ request = NoRequest
    /\ response = NoResponse
    /\ effects = NoEffects
    /\ dataset = {}
    /\ walk_rev = FALSE
    /\ bucket = {}
    /\ splits = << >>
    /\ uploads = {}
    /\ csv_lines = {}
    /\ dpc = "idle"
    /\ tpc = "create"
    /\ args \in Args
    /\ trainable = FALSE
    /\ learning_rate = 0
    /\ fits = << >>
    /\ model_dir = {}

\* train_model.py:175-227: the datasets, create_model (the backbone frozen,
\* line 141) and the first compile; any of it may raise
CreateModel ==
    /\ tpc = "create"
    /\ \E ok \in BOOLEAN :
        IF ok
        THEN /\ trainable' = FALSE
             /\ learning_rate' = args.learning_rate
             /\ tpc' = "fit1"
        ELSE /\ tpc' = "failed"
             /\ UNCHANGED << trainable, learning_rate >>
    /\ UNCHANGED << args, fits, model_dir >>
    /\ UNCHANGED serve_vars
    /\ UNCHANGED data_vars

\* train_model.py:229-237: phase 1
FitPhase1 ==
    /\ tpc = "fit1"
    /\ LET n == phase_epochs(args.epochs)
       IN  \/ \E ran \in EpochsRun(n) :
                /\ fits' = Append(fits, FitCall(n, trainable, learning_rate, ran, TRUE))
                /\ tpc' = "fit2"
           \/ \E ran \in 0 .. n :
                /\ fits' = Append(fits, FitCall(n, trainable, learning_rate, ran, FALSE))
                /\ tpc' = "failed"
    /\ UNCHANGED << args, trainable, learning_rate, model_dir >>
    /\ UNCHANGED serve_vars
    /\ UNCHANGED data_vars

\* train_model.py:239-259: phase 2: the backbone unfrozen, the model
\* recompiled at a tenth of the learning rate and fitted again
FitPhase2 ==
    /\ tpc = "fit2"
    /\ trainable' = TRUE
    /\ learning_rate' = args.learning_rate \div 10
    /\ LET n == phase_epochs(args.epochs)
           call(ran, completed) ==
               FitCall(n, trainable', learning_rate', ran, completed)
       IN  \/ \E ran \in EpochsRun(n) :
                /\ fits' = Append(fits, call(ran, TRUE))
                /\ tpc' = "save"
           \/ \E ran \in 0 .. n :
                /\ fits' = Append(fits, call(ran, FALSE))
                /\ tpc' = "failed"
    /\ UNCHANGED << args, model_dir >>
    /\ UNCHANGED serve_vars
    /\ UNCHANGED data_vars

\* train_model.py:261-292: the model, the label list and the metrics are
\* written below MODEL_DIR; the evaluation between them may raise
SaveAndEvaluate ==
    /\ tpc = "save"
    /\ \/ /\ model_dir' = { << "saved_model" >>, << "class_names.json" >>,
                           << "metrics.json" >> }
          /\ tpc' = "done"
       \/ /\ model_dir' = { << "saved_model" >>, << "class_names.json" >> }
          /\ tpc' = "failed"
    /\ UNCHANGED << args, trainable, learning_rate, fits >>
    /\ UNCHANGED serve_vars
    /\ UNCHANGED data_vars

NextTrain ==
    \/ CreateModel
    \/ FitPhase1
    \/ FitPhase2
    \/ SaveAndEvaluate

SpecTrain == InitTrain /\ [][NextTrain]_vars

(***************************************************************************)
(* The training script's claim, checked under SpecTrain.                   *)
(***************************************************************************)
\* the epochs the fit calls made so far were configured for, and ran
RECURSIVE Total(_, _)
Total(calls, field) ==
    IF calls = << >> THEN 0
    ELSE calls[1][field] + Total(Tail(calls), field)

\* C13: train_model runs phase 1 with the backbone frozen and only
\* afterwards phase 2 with the backbone unfrozen, each configured for
\* epochs // 2 epochs; for every requested epochs >= 0 the two phases are
\* configured for epochs epochs in total when epochs is even and for one
\* fewer when it is odd (none at all, and none run, when epochs = 1); the
\* backbone is never trainable during phase 1.
C13_TwoPhasesHalfEpochs ==
    /\ Len(fits) <= 2
    /\ tpc \in { "create", "fit1" } => ~ trainable
    /\ Len(fits) >= 1 => ~ fits[1].trainable
    /\ Len(fits) = 2 => fits[1].completed /\ fits[2].trainable
    /\ tpc \in { "save", "done" } => Len(fits) = 2
    /\ \A i \in 1 .. Len(fits) :
          /\ 2 * fits[i].epochs <= args.epochs
          /\ 2 * fits[i].epochs >= args.epochs - 1
          /\ fits[i].ran <= fits[i].epochs
    /\ Len(fits) = 2 =>
          /\ args.epochs % 2 = 0 => Total(fits, "epochs") = args.epochs
          /\ args.epochs % 2 = 1 => Total(fits, "epochs") = args.epochs - 1
          /\ args.epochs = 1 => Total(fits, "ran") = 0

\* a finished training that was asked for an odd number of epochs, above 1
C13_Witness ==
    /\ tpc = "done"
    /\ args.epochs % 2 = 1
    /\ args.epochs > 1
    /\ Len(fits) = 2
    /\ Total(fits, "epochs") = args.epochs - 1

====
